---- MODULE Spec2Model ----
(***************************************************************************)
(* Model of lenrmc: the partition generator and outcome enumerator of      *)
(* lenrmc.combinations, the Q-value of lenrmc.calculations.ReactionEnergy, *)
(* the Gamow / alpha-decay formulas and the exponential decay kinetics of  *)
(* lenrmc.calculations, and the nuclide table of lenrmc.nubase.            *)
(*                                                                         *)
(* The calculations are functions and objects that hold what they were     *)
(* built with.  For them the state of the model is the last call made      *)
(* (operation and arguments) and what it produced: a value, not-a-number,  *)
(* or a raised exception.  The nuclide table is a lazily loaded object     *)
(* shared by the whole process: its state is the class attribute           *)
(* Nuclides._nuclides and the Nuclides instances built so far.             *)
(***************************************************************************)
EXTENDS Integers, Sequences, FiniteSets, TLC

VARIABLES
    call,               \* the call in progress: operation and arguments
    ret,                \* what the call produced
    heap,               \* the Nuclides instances built by Nuclides.db, in order
    Nuclides_nuclides,  \* Nuclides._nuclides: 0 for None, else an index of heap
    pc,                 \* per thread: its position inside Nuclides.db
    local,              \* per thread: the instance its cls.load returned
    returned            \* the instances Nuclides.db has returned so far

vars == <<call, ret, heap, Nuclides_nuclides, pc, local, returned>>

\* the nuclide table and the threads reading it
tableVars == <<heap, Nuclides_nuclides, pc, local, returned>>

(***************************************************************************)
(* Bounds of the model                                                     *)
(***************************************************************************)
\* largest target handed to vectors3
MaxN == 6
\* largest parent mass number / atomic number handed to regular_combinations
MaxA == 6
MaxZ == 3

\* largest multiplicity of a nuclide on one side of a reaction
MaxMult == 2
\* Q-values run over -MaxQ..MaxQ, in units of 0.1 MeV
MaxQ == 40
\* electron-screening charges run over 0..MaxScreening
MaxScreening == 3
\* decay kinetics: mole counts, decay constants (1/s) and elapsed seconds
MaxMoles == 3
MaxLambda == 3
MaxSeconds == 4

(***************************************************************************)
(* Sequence helpers                                                        *)
(***************************************************************************)
RECURSIVE Flatten(_)
Flatten(ss) == IF ss = <<>> THEN <<>> ELSE Head(ss) \o Flatten(Tail(ss))

RECURSIVE SumSeq(_)
SumSeq(s) == IF s = <<>> THEN 0 ELSE Head(s) + SumSeq(Tail(s))

Range(s) == {s[i] : i \in 1..Len(s)}

\* number of positions of s holding x
Count(s, x) == Cardinality({i \in 1..Len(s) : s[i] = x})

(***************************************************************************)
(* lenrmc.combinations.vectors3                                            *)
(*   for i in range(n): j = n - i; for k in range(j): yield (j-k, k, i)    *)
(* The loop is fixed by PossibleDaughtersTest.test_simple_case, which      *)
(* lists vectors3(3) in order, and test_sums (15 tuples for n = 5).        *)
(***************************************************************************)
\* variant: the inner loop runs k over range(j + 1), letting the first
\* component reach 0
vectors3_inclusive(n) ==
    Flatten([i1 \in 1..(n + 1) |->
        [k1 \in 1..(n - (i1 - 1) + 1) |->
            <<(n - (i1 - 1)) - (k1 - 1), k1 - 1, i1 - 1>>]])

\* variant: the third component is taken from the 1-based loop counter
vectors3_offbyone(n) ==
    Flatten([i1 \in 1..n |->
        [k1 \in 1..(n - (i1 - 1)) |->
            <<(n - (i1 - 1)) - (k1 - 1), k1 - 1, i1>>]])

\* variant: the outer loop restarts the inner one from the same j, yielding
\* the i = 0 block again for every i
vectors3_repeat(n) ==
    Flatten([i1 \in 1..n |->
        [k1 \in 1..n |-> <<n - (k1 - 1), k1 - 1, 0>>]])

vectors3(n) ==
    Flatten([i1 \in 1..n |->
        [k1 \in 1..(n - (i1 - 1)) |->
            <<(n - (i1 - 1)) - (k1 - 1), k1 - 1, i1 - 1>>]])

(***************************************************************************)
(* lenrmc.combinations.regular_combinations                                *)
(*   seen = set()                                                          *)
(*   for masses in vectors3(A):                                            *)
(*     for protons in vectors3(Z):                                         *)
(*       pair the components; skip the candidate when a fragment has       *)
(*       charge > mass; drop the empty (0, 0) fragments; sort the rest;    *)
(*       skip a combination already seen; yield it                         *)
(* Fixed by PossibleDaughtersTest: test_triples lists the output for       *)
(* (2, 1), test_possible_daughters counts 19 for (6, 3), test_outcomes     *)
(* counts 42 for p+7Li = (8, 4) with ((8, 4),) first.                      *)
(***************************************************************************)
\* tuple order of Python on (mass, charge) pairs
PairLess(p, q) == p[1] < q[1] \/ (p[1] = q[1] /\ p[2] < q[2])

RECURSIVE InsertSorted(_, _)
InsertSorted(x, s) ==
    IF s = <<>> THEN <<x>>
    ELSE IF PairLess(Head(s), x) THEN <<Head(s)>> \o InsertSorted(x, Tail(s))
    ELSE <<x>> \o s

\* tuple(sorted(pairs))
RECURSIVE SortPairs(_)
SortPairs(s) == IF s = <<>> THEN <<>> ELSE InsertSorted(Head(s), SortPairs(Tail(s)))

\* zip(masses, protons)
ZipPairs(masses, protons) == [i \in 1..3 |-> <<masses[i], protons[i]>>]

\* the pairs kept from one candidate: empty fragments are not daughters
NonEmptyPairs(pairs) == SelectSeq(pairs, LAMBDA p : p # <<0, 0>>)

\* a candidate is skipped when some fragment has more charge than mass
Admissible(pairs) == \A i \in 1..Len(pairs) : pairs[i][1] >= pairs[i][2]

\* every (masses, protons) candidate, in loop order
Candidates(totals) ==
    LET ms == vectors3(totals[1])
        ps == vectors3(totals[2])
    IN  Flatten([i \in 1..Len(ms) |-> [j \in 1..Len(ps) |-> ZipPairs(ms[i], ps[j])]])

\* indices 1..n in loop order
Indices(n) == [i \in 1..n |-> i]

\* what candidate c would be yielded as: tuple(sorted(non-empty pairs))
Yielded(c) == SortPairs(NonEmptyPairs(c))

\* variant: no seen set, every admissible candidate is yielded
regular_combinations_nodedup(totals) ==
    LET cs == Candidates(totals)
        kept == SelectSeq(Indices(Len(cs)), LAMBDA i : Admissible(cs[i]))
    IN  [k \in 1..Len(kept) |-> Yielded(cs[kept[k]])]

\* variant: a fragment with charge > mass is dropped from the combination
\* instead of the candidate being skipped
regular_combinations_filtered(totals) ==
    LET cs == Candidates(totals)
        keys == [i \in 1..Len(cs) |->
                    SortPairs(SelectSeq(NonEmptyPairs(cs[i]), LAMBDA p : p[1] >= p[2]))]
        kept == SelectSeq(Indices(Len(cs)),
                    LAMBDA i : \A j \in 1..(i - 1) : keys[j] # keys[i])
    IN  [k \in 1..Len(kept) |-> keys[kept[k]]]

\* the loop with its seen set: candidate i is yielded when it is admissible
\* and no earlier admissible candidate gave the same sorted tuple
regular_combinations(totals) ==
    LET cs == Candidates(totals)
        keys == [i \in 1..Len(cs) |-> Yielded(cs[i])]
        kept == SelectSeq(Indices(Len(cs)),
                    LAMBDA i : /\ Admissible(cs[i])
                               /\ \A j \in 1..(i - 1) :
                                      ~(Admissible(cs[j]) /\ keys[j] = keys[i]))
    IN  [k \in 1..Len(kept) |-> keys[kept[k]]]

(***************************************************************************)
(* Numbers.  Python floats are carried as scaled integers; each operator   *)
(* names its unit.  A call produces a number, not-a-number, or raises.     *)
(***************************************************************************)
Num(v) == [kind |-> "num", v |-> v]

NaN == [kind |-> "nan"]

Raise(exc) == [kind |-> "raise", exc |-> exc]

\* largest magnitude carried; products beyond it saturate
Cap == 2000000000

SatMul(a, b) == IF a = 0 \/ b <= Cap \div a THEN a * b ELSE Cap

\* floor(a * k / d) without forming a * k
MulDiv(a, k, d) == (a \div d) * k + ((a % d) * k) \div d

\* math.sqrt on a non-negative integer: the largest r with r*r <= n
RECURSIVE IsqrtIn(_, _, _)
IsqrtIn(n, lo, hi) ==
    IF lo >= hi THEN lo
    ELSE LET mid == (lo + hi + 1) \div 2
         IN  IF mid * mid <= n THEN IsqrtIn(n, mid, hi) ELSE IsqrtIn(n, lo, mid - 1)

Isqrt(n) == IsqrtIn(n, 0, 46340)

\* math.pow(A, 1/3) in units of 0.01: the largest c with c^3 <= A * 10^6
RECURSIVE IcbrtIn(_, _, _)
IcbrtIn(n, lo, hi) ==
    IF lo >= hi THEN lo
    ELSE LET mid == (lo + hi + 1) \div 2
         IN  IF mid * mid * mid <= n THEN IcbrtIn(n, mid, hi) ELSE IcbrtIn(n, lo, mid - 1)

Cbrt100(A) == IcbrtIn(A * 1000000, 0, 1000)

\* math.acos(math.sqrt(x)) - math.sqrt(x * (1 - x)) at x = k/20, in units
\* of 0.001
GTable ==
    <<1571, 1127, 949, 816, 707, 614, 533, 461, 396, 338, 285,
      238, 195, 156, 121, 91, 64, 41, 22, 8, 0>>

\* the same for x = num / (20 * d20) in [0, 1], d20 a multiple of 50000:
\* interpolated between the table's points, and below x = 0.05, where the
\* square root dominates, pi/2 - 2*s + s^3/3 with s = sqrt(x)
GMilli(num, d20) ==
    LET k == num \div d20
        frac == (num - k * d20) \div (d20 \div 1000)
        s == Isqrt(num \div (d20 \div 50000))
    IN  IF k >= 20 THEN 0
        ELSE IF k = 0 THEN 1571 - 2 * s + (s * s * s) \div 3000000
        ELSE GTable[k + 1] - ((GTable[k + 1] - GTable[k + 2]) * frac) \div 1000

(***************************************************************************)
(* Nuclide records (lenrmc.nubase.Nuclide): the attributes the             *)
(* calculations read.  mass_excess_kev in keV; mass10 is mass.mev in units *)
(* of 10 MeV.                                                              *)
(***************************************************************************)
Nuclide(label, A, Z, kev, m10) ==
    [label |-> label, mass_number |-> A, atomic_number |-> Z,
     mass_excess_kev |-> kev, mass10 |-> m10]

\* rows of the nuclide table the model draws from
SampleNuclides ==
    { Nuclide("n", 1, 0, 8071, 94),
      Nuclide("p", 1, 1, 7289, 94),
      Nuclide("4He", 4, 2, 2425, 373),
      Nuclide("7Li", 7, 3, 14907, 654),
      Nuclide("54Cr", 54, 24, -56933, 5024),
      Nuclide("186Os", 186, 76, -43002, 17321) }

LightNuclides == {n \in SampleNuclides : n.mass_number <= 7}

(***************************************************************************)
(* lenrmc.calculations.ReactionEnergy                                      *)
(***************************************************************************)
\* sum(num * i.mass_excess_kev for num, i in side)
RECURSIVE SideKev(_)
SideKev(side) ==
    IF side = <<>> THEN 0
    ELSE Head(side)[1] * Head(side)[2].mass_excess_kev + SideKev(Tail(side))

\* variant: the daughters' sum is added instead of subtracted
ReactionEnergy_kev_added(reaction) ==
    SideKev(reaction.lvalues) + SideKev(reaction.rvalues)

\* ReactionEnergy._kev
ReactionEnergy_kev(reaction) ==
    SideKev(reaction.lvalues) - SideKev(reaction.rvalues)

\* ReactionEnergy.__init__: value = Energy.load(kev=self._kev())
ReactionEnergy(reaction) == Num(ReactionEnergy_kev(reaction))

\* the reaction with reactants and daughters exchanged
Swapped(reaction) == [lvalues |-> reaction.rvalues, rvalues |-> reaction.lvalues]

\* one side of a reaction: one or two (multiplicity, nuclide) terms
Sides ==
    LET terms == (1..MaxMult) \X LightNuclides
    IN  {<<t>> : t \in terms} \cup {<<t, u>> : t \in terms, u \in terms}

(***************************************************************************)
(* lenrmc.calculations.CoulombBarrier                                      *)
(***************************************************************************)
\* FINE_STRUCTURE_CONSTANT_MEV_FM in units of 0.00001 MeV fm
\* (CoulombBarrierTest: 236156 keV at 1 fm for Z = 2, 82)
FineStructure100k == 143998

\* CoulombBarrier.__init__: _base, in units of 0.00001 MeV fm
CoulombBarrierBase(n0, n1) == FineStructure100k * n0.atomic_number * n1.atomic_number

(***************************************************************************)
(* lenrmc.calculations.GamowSuppressionFactor.value                        *)
(* q is q_value.mev in units of 0.1 MeV.  The value is carried as its      *)
(* sign.                                                                   *)
(***************************************************************************)
\* rs in units of 0.001 fm
TouchingDistance(A, A4) == 11 * (Cbrt100(A) + Cbrt100(A4))

\* r = rs / rc as a fraction: rc = Z * Z4 * 1.43998 / Q
BarrierRatio(A, Z, A4, Z4, q) ==
    [num |-> TouchingDistance(A, A4) * q * 10, den |-> Z * Z4 * 143998]

\* variant: G is taken from the formula whatever r is, and r >= 1 is
\* outside the domain of math.acos / math.sqrt
GamowSuppressionFactor_nocutoff(smaller, larger, q) ==
    LET A == larger.mass_number
        Z == larger.atomic_number
        A4 == smaller.mass_number
        Z4 == smaller.atomic_number
        r == BarrierRatio(A, Z, A4, Z4, q)
    IN  IF q < 0 THEN NaN
        ELSE IF q = 0 THEN Raise("ZeroDivisionError")
        ELSE IF r.den = 0 THEN Raise("ZeroDivisionError")
        ELSE IF r.num > r.den THEN Raise("ValueError")
        ELSE IF A + A4 = 0 THEN Raise("ZeroDivisionError")
        ELSE IF r.num = r.den \/ A * A4 = 0 THEN Num(0)
        ELSE Num(1)

GamowSuppressionFactor(smaller, larger, q) ==
    LET A == larger.mass_number
        Z == larger.atomic_number
        A4 == smaller.mass_number
        Z4 == smaller.atomic_number
        r == BarrierRatio(A, Z, A4, Z4, q)
    IN  \* if Q < 0: return math.nan
        IF q < 0 THEN NaN
        \* rc = float(Z) * Z4 * 1.43998 / Q
        ELSE IF q = 0 THEN Raise("ZeroDivisionError")
        \* r = rs / rc
        ELSE IF r.den = 0 THEN Raise("ZeroDivisionError")
        \* m = (float(A) * A4) / (A + A4)
        ELSE IF A + A4 = 0 THEN Raise("ZeroDivisionError")
        \* G = 0 if r >= 1; the product is 0 as well when m = 0
        ELSE IF r.num >= r.den \/ A * A4 = 0 THEN Num(0)
        \* acos(sqrt(r)) - sqrt(r * (1 - r)) > 0 for 0 <= r < 1
        ELSE Num(1)

(***************************************************************************)
(* lenrmc.calculations.Gamow2.value                                        *)
(* q is q_value.mev in units of 0.1 MeV.  The value is carried as its      *)
(* sign.                                                                   *)
(***************************************************************************)
\* x = Q / CoulombBarrier(smaller, larger).width(q_value).fermis as a
\* fraction: width = _base / Q, so x = Q * Q / _base
TunnelingRatio(smaller, larger, q) ==
    [num |-> q * q * 1000, den |-> CoulombBarrierBase(smaller, larger)]

Gamow2(smaller, larger, q) ==
    LET x == TunnelingRatio(smaller, larger, q)
    IN  \* CoulombBarrier.width: self._base / q_value.mev
        IF q = 0 THEN Raise("ZeroDivisionError")
        \* x = Q / width.fermis with width = 0
        ELSE IF x.den = 0 THEN Raise("ZeroDivisionError")
        \* t0 = math.sqrt((2 * mass) / (HBAR_MEV_S**2 * Q)) with Q < 0
        ELSE IF q < 0 /\ smaller.mass10 > 0 THEN Raise("ValueError")
        \* t2 = math.acos(math.sqrt(x)) - ... with sqrt(x) > 1
        ELSE IF x.num > x.den THEN Raise("ValueError")
        \* t0 * t1 * t2, with t2 = 0 at x = 1 and t0 = 0 for a massless particle
        ELSE IF x.num = x.den \/ smaller.mass10 = 0 THEN Num(0)
        ELSE Num(1)

(***************************************************************************)
(* lenrmc.calculations.IsotopicAlphaDecayCalculation                       *)
(* q is q_value.mev in units of 0.1 MeV; screening is kwargs['screening'].  *)
(***************************************************************************)
\* __init__: the derived attributes.  alpha_energy10 is alpha_energy in
\* units of 0.00001 MeV, Q / (1 + m/M) = Q * M / (M + m); separation1000 is
\* nuclear_separation in units of 0.001 fm.
IsotopicAlphaDecayCalculation(smaller, larger, q, screening) ==
    [smaller |-> smaller, larger |-> larger, q |-> q,
     screened_Z |-> larger.atomic_number - screening,
     alpha_mass10 |-> smaller.mass10,
     alpha_energy10 |-> q * ((larger.mass10 * 10000) \div (larger.mass10 + smaller.mass10)),
     separation1000 |-> 12 * (Cbrt100(smaller.mass_number) + Cbrt100(larger.mass_number))]

\* x = alpha_energy / barrier_height as a fraction, barrier_height being
\* 2 * screened_Z * 1.44 / nuclear_separation
EnergyRatio(c) ==
    [num |-> c.alpha_energy10 * (c.separation1000 \div 12),
     den |-> 24000000 * c.screened_Z]

\* ph = math.sqrt(2 * alpha_mass / (hbarc ** 2 * alpha_energy)) in units of
\* 0.001, for alpha_energy > 0; hbarc = 197.33, so 2 / hbarc^2 = 0.000051362
PhMilli(c) ==
    LET a == 51362 * c.alpha_mass10
        e == c.alpha_energy10
    IN  IF a \div e < 2000000
        THEN Isqrt(MulDiv(a, 1000, e))
        ELSE 10 * Isqrt(MulDiv(a, 10, e))

\* ph * 2 * screened_Z * 1.44 * (acos(sqrt(x)) - sqrt(x * (1 - x))) in units
\* of 0.001, for alpha_energy > 0 and 0 <= x <= 1
GamowMilli(c) ==
    LET x == EnergyRatio(c)
        g == GMilli(x.num, x.den \div 20)
    IN  SatMul((PhMilli(c) * g) \div 1000, 288 * c.screened_Z) \div 100

\* math.exp(-2 * g) is 0.0 once 2 * g exceeds 745.13 (g in units of 0.001)
ExpUnderflow == 372566

\* property gamow_factor
gamow_factor(c) ==
    LET x == EnergyRatio(c)
    IN  \* barrier_height: ... / self.nuclear_separation
        IF c.separation1000 = 0 THEN Raise("ZeroDivisionError")
        \* x = self.alpha_energy / self.barrier_height
        ELSE IF c.screened_Z = 0 THEN Raise("ZeroDivisionError")
        \* ph = math.sqrt(2 * m / (hbarc ** 2 * self.alpha_energy))
        ELSE IF c.alpha_energy10 = 0 THEN Raise("ZeroDivisionError")
        ELSE IF c.alpha_energy10 < 0 THEN Raise("ValueError")
        \* math.sqrt(x) with x < 0
        ELSE IF c.screened_Z < 0 THEN Raise("ValueError")
        \* math.acos(math.sqrt(x)) with x > 1
        ELSE IF x.num > x.den THEN Raise("ValueError")
        ELSE Num(GamowMilli(c))

\* property tunneling_probability: math.exp(-2 * self.gamow_factor), carried
\* as its sign
tunneling_probability(c) ==
    LET g == gamow_factor(c)
    IN  IF g.kind = "raise" THEN g
        ELSE IF g.v > ExpUnderflow THEN Num(0)
        ELSE Num(1)

\* property decay_constant: tunneling_probability * barrier_assault_frequency,
\* carried as its sign (the frequency is positive when alpha_energy is)
decay_constant(c) == tunneling_probability(c)

\* property half_life: HalfLife(0.693 / self.decay_constant, 's'), carried as
\* its sign
half_life(c) ==
    LET d == decay_constant(c)
    IN  IF d.kind = "raise" THEN d
        ELSE IF d.v = 0 THEN Raise("ZeroDivisionError")
        ELSE Num(1)

(***************************************************************************)
(* lenrmc.calculations.IsotopicDecay                                       *)
(***************************************************************************)
\* avogadros_number in units of 10^21
Avogadro21 == 602

\* math.exp(-k) in units of 0.00001, for an integer k >= 0
RECURSIVE ExpNeg(_)
ExpNeg(k) == IF k <= 0 THEN 100000 ELSE (ExpNeg(k - 1) * 368) \div 1000

\* __init__: initial (atoms, in units of 10^21) from kwargs['moles']
IsotopicDecay(lambda, deposited_energy, atomic_number, isotopic_abundance, moles) ==
    [decay_constant |-> lambda, deposited_energy |-> deposited_energy,
     atomic_number |-> atomic_number, isotopic_abundance |-> isotopic_abundance,
     initial |-> moles * Avogadro21]

\* variant: the decayed atoms, initial * (1 - exp(-lambda * t)), are returned
remaining_decayed(decay, seconds) ==
    decay.initial - (decay.initial * ExpNeg(decay.decay_constant * seconds)) \div 100000

\* remaining: self.initial * math.exp(-self.decay_constant * elapsed)
remaining(decay, seconds) ==
    (decay.initial * ExpNeg(decay.decay_constant * seconds)) \div 100000

\* Energy.joules of an energy of kev keV, in units of 10^-15 J
\* (1 keV = 1.602 * 10^-16 J)
Energy_joules(kev) == (kev * 1602) \div 10000

\* Power.load(watts=...): whole units of 10^6 W, the unit of an activity in
\* 10^21 / s times an energy in 10^-15 J, and the rest in W
Power(megawatts, watts) == [megawatts |-> megawatts, watts |-> watts]

\* variant: the decay constant times the initial atom count, whatever t is
activity_initial(decay, seconds) == decay.decay_constant * decay.initial

\* activity: self.decay_constant * self.remaining(...), in 10^21 / s
activity(decay, seconds) == decay.decay_constant * remaining(decay, seconds)

\* power: watts = self.activity(...) * self.deposited_energy.joules
power(decay, seconds) ==
    Power(activity(decay, seconds) * Energy_joules(decay.deposited_energy), 0)

\* parents of the decays the model builds: atomic number, isotopic abundance
\* (units of 0.001 percent) and energy per decay (keV)
SampleParents ==
    { [atomic_number |-> 78, isotopic_abundance |-> 12, q_kev |-> 3252],
      [atomic_number |-> 84, isotopic_abundance |-> 0, q_kev |-> 8954] }

(***************************************************************************)
(* lenrmc.calculations.AlphaDecay                                          *)
(* A reaction is carried as what its alpha_decay(...) gives: None or the   *)
(* parent and the decay constant of its IsotopicDecay.                     *)
(***************************************************************************)
\* most reactions handed to AlphaDecay
MaxReactions == 3

\* Python's None
None == [none |-> TRUE]

\* the reactions the model draws from
SampleReactions ==
    {None} \cup
    {[parent |-> p, decay_constant |-> l] : p \in SampleParents, l \in 1..2}

\* every list of at most n reactions
ReactionLists(n) ==
    UNION {[1..k -> SampleReactions] : k \in 0..n}

\* r.alpha_decay(...), kwargs holding moles
alpha_decay(r, moles) ==
    IF r = None THEN None
    ELSE IsotopicDecay(r.decay_constant, r.parent.q_kev, r.parent.atomic_number,
                       r.parent.isotopic_abundance, moles)

\* the keys of a dict filled in the order of ds: first appearances
FirstKeys(ds) ==
    LET firsts == SelectSeq(Indices(Len(ds)),
                     LAMBDA i : \A j \in 1..(i - 1) :
                                   ds[j].atomic_number # ds[i].atomic_number)
    IN  [k \in 1..Len(firsts) |-> ds[firsts[k]].atomic_number]

\* variant: self.decays[d.atomic_number] = [d], a later decay of the same
\* element replacing the earlier ones
AlphaDecay_overwrite(reactions, moles) ==
    LET results == [i \in 1..Len(reactions) |-> alpha_decay(reactions[i], moles)]
        ds == SelectSeq(results, LAMBDA d : d # None)
        last == SelectSeq(Indices(Len(ds)),
                    LAMBDA i : \A j \in (i + 1)..Len(ds) :
                                  ds[j].atomic_number # ds[i].atomic_number)
    IN  [keys |-> FirstKeys(ds),
         decays |-> [z \in Range(FirstKeys(ds)) |->
                        <<ds[CHOOSE i \in Range(last) : ds[i].atomic_number = z]>>]]

\* __init__: the decays that are not None, appended to the list of their
\* atomic number in the order of the reactions
AlphaDecay(reactions, moles) ==
    LET results == [i \in 1..Len(reactions) |-> alpha_decay(reactions[i], moles)]
        ds == SelectSeq(results, LAMBDA d : d # None)
    IN  [keys |-> FirstKeys(ds),
         decays |-> [z \in Range(FirstKeys(ds)) |->
                        SelectSeq(ds, LAMBDA d : d.atomic_number = z)]]

\* activity: the loops over self.decays.items() and over each list
AlphaDecay_activity(self, seconds) ==
    SumSeq([k \in 1..Len(self.keys) |->
        LET decays == self.decays[self.keys[k]]
        IN  SumSeq([i \in 1..Len(decays) |->
                decays[i].isotopic_abundance * activity(decays[i], seconds)])])

\* power: return Power.load(watts=1)
AlphaDecay_power(self, seconds) == Power(0, 1)

(***************************************************************************)
(* lenrmc.calculations.AlphaCalculationMixin                               *)
(***************************************************************************)
\* __init__: self.smaller, self.larger = daughters
AlphaCalculationMixin(parent, daughters, q_value) ==
    [parent |-> parent, smaller |-> daughters[1], larger |-> daughters[2],
     q_value |-> q_value]

\* load: None for no components, else cls(parent, daughters, q_value)
AlphaCalculationMixin_load(components, q_value) ==
    IF components = <<>> THEN None
    ELSE AlphaCalculationMixin(components[1], components[2], q_value)

(***************************************************************************)
(* lenrmc.nubase: the rows of the data file                                *)
(* A row is the dict Nuclide.load slices out of a fixed-width line: a      *)
(* field is present only when its columns are not blank.  The rows below   *)
(* are in the format of nubtab12.asc, where every entry carries its mass   *)
(* number, atomic number and label; mass excess is in keV.                 *)
(***************************************************************************)
Row(A, Z, label, halfLife, unit, decays) ==
    [massNumber |-> A, atomicNumber |-> Z, nuclide |-> label,
     halfLife |-> halfLife, halfLifeUnit |-> unit,
     decayModesAndIntensities |-> decays]

\* the same row with its mass-excess columns filled
WithMassExcess(row, kev) ==
    [f \in DOMAIN row \cup {"massExcess"} |->
        IF f = "massExcess" THEN kev ELSE row[f]]

\* a stable entry: 'stbl' and blank unit columns
StableRow(A, Z, label, decays) ==
    [massNumber |-> A, atomicNumber |-> Z, nuclide |-> label,
     halfLife |-> "stbl", decayModesAndIntensities |-> decays]

\* a blank line: no field at all
BlankRow == [f \in {} |-> ""]

\* the file behind NUBASE_PATH, as far as the model reads it
NubaseFile ==
    << WithMassExcess(Row(1, 0, "1 n", "613.9", "s", "B-=100"), 8071),
       WithMassExcess(StableRow(1, 1, "1H", "IS=99.9885"), 7289),
       WithMassExcess(StableRow(2, 1, "2H", "IS=0.0115"), 13136),
       WithMassExcess(Row(3, 1, "3H", "12.32", "y", "B-=100"), 14950),
       WithMassExcess(StableRow(4, 2, "4He", "IS=99.999866"), 2425),
       [massNumber |-> 5, atomicNumber |-> 3, nuclide |-> "5Lii"],
       WithMassExcess(StableRow(6, 3, "6Li", "IS=7.59"), 14087),
       WithMassExcess(StableRow(7, 3, "7Li", "IS=92.41"), 14907),
       WithMassExcess(Row(16, 7, "16N", "7.13", "s", "B-=100"), 5684),
       WithMassExcess(Row(16, 7, "16Nm", "5.25", "us", "IT=99.9996"), 5804),
       WithMassExcess(Row(98, 43, "98Tc", "4.2", "My", "B-=100"), -86432) >>

\* the label without its last character, and that character, for the
\* labels of NubaseFile (label[:-1], label[-1])
Stem(label) ==
    CASE label = "1 n" -> "1 " [] label = "1H" -> "1" [] label = "2H" -> "2"
      [] label = "3H" -> "3" [] label = "4He" -> "4H" [] label = "5Lii" -> "5Li"
      [] label = "6Li" -> "6L" [] label = "7Li" -> "7L" [] label = "16N" -> "16"
      [] label = "16Nm" -> "16N" [] label = "98Tc" -> "98T"

Last(label) ==
    CASE label = "1 n" -> "n" [] label \in {"1H", "2H", "3H"} -> "H"
      [] label = "4He" -> "e" [] label \in {"5Lii", "6Li", "7Li"} -> "i"
      [] label = "16N" -> "N" [] label = "16Nm" -> "m"
      [] label = "98Tc" -> "c"

\* re.search(r'IS=([\d\.]+)', decays): None, or the match with float(group(1))
\* in units of 10^-6 percent
IsotopicAbundanceMatch(decays) ==
    CASE decays = "IS=99.9885" -> [group1 |-> 99988500]
      [] decays = "IS=0.0115" -> [group1 |-> 11500]
      [] decays = "IS=99.999866" -> [group1 |-> 99999866]
      [] decays = "IS=7.59" -> [group1 |-> 7590000]
      [] decays = "IS=92.41" -> [group1 |-> 92410000]
      [] OTHER -> None

\* ALTERNATE_LABELS.get(label, label)
AlternateLabel(label) ==
    CASE label = "1 n" -> "n" [] label = "1H" -> "p" [] label = "2H" -> "d"
      [] label = "3H" -> "t" [] OTHER -> label

\* Nuclide._not_excited, as far as NubaseFile goes
NotExcited == {"1 n", "3Li", "4Li", "5Li", "8Be"}

(***************************************************************************)
(* lenrmc.nubase.Nuclide, Electron, ElectronNeutrino                       *)
(***************************************************************************)
\* property is_excited, from the label of the row and the abundance
is_excited(row_label, isotopic_abundance) ==
    IF isotopic_abundance # 0 THEN FALSE
    ELSE IF row_label \in NotExcited THEN FALSE
    ELSE Last(row_label) \in {"i", "j", "m", "n", "p", "q", "r", "x"}

\* Nuclide.load(line=...): Nuclide(row), or BadNubaseRow raised by __init__
\* for a row without mass excess
Nuclide_load(row) ==
    IF "massExcess" \notin DOMAIN row THEN Raise("BadNubaseRow")
    ELSE LET decays == IF "decayModesAndIntensities" \in DOMAIN row
                       THEN row.decayModesAndIntensities ELSE ""
             g == IsotopicAbundanceMatch(decays)
             abundance == IF g # None THEN g.group1 ELSE 0
             excited == is_excited(row.nuclide, abundance)
             label == AlternateLabel(IF excited THEN Stem(row.nuclide) ELSE row.nuclide)
             level == IF excited THEN Last(row.nuclide) ELSE "0"
         IN  [row |-> row, row_label |-> row.nuclide,
              atomic_number |-> row.atomicNumber, mass_number |-> row.massNumber,
              isotopic_abundance |-> abundance, is_stable |-> g # None,
              numbers |-> <<row.massNumber, row.atomicNumber>>,
              is_excited |-> excited, label |-> label,
              signature |-> <<label, level>>,
              mass_excess_kev |-> row.massExcess]

\* Electron(); the neutrino's label is written nu_e here
Electron ==
    [row_label |-> "e-", atomic_number |-> 0, mass_number |-> 0,
     is_stable |-> TRUE, numbers |-> <<0, -1>>, is_excited |-> FALSE,
     label |-> "e-", signature |-> <<"e-", "0">>, mass_excess_kev |-> 0]

\* ElectronNeutrino(); its mass excess of 0.00023 keV is below the unit
ElectronNeutrino ==
    [row_label |-> "nu_e", atomic_number |-> 0, mass_number |-> 0,
     is_stable |-> FALSE, numbers |-> <<0, 0>>, is_excited |-> FALSE,
     label |-> "nu_e", signature |-> <<"nu_e", "0">>, mass_excess_kev |-> 0]

(***************************************************************************)
(* lenrmc.nubase.Nuclides                                                  *)
(* The dicts are functions; a defaultdict is a function whose domain holds *)
(* the keys inserted so far.                                               *)
(***************************************************************************)
\* the list of the nuclides n with key(n) = k, in order
Having(nuclides, key(_), k) == SelectSeq(nuclides, LAMBDA n : key(n) = k)

\* the last of them: a later assignment to a dict key replaces the earlier
LastHaving(nuclides, key(_), k) ==
    LET ns == Having(nuclides, key, k) IN ns[Len(ns)]

\* __init__
Nuclides(nuclides) ==
    LET Label(n) == n.row_label
        Signature(n) == n.signature
        AtomicNumber(n) == n.atomic_number
        Numbers(n) == n.numbers
    IN  [nuclides |-> nuclides,
         by_label |-> [k \in {Label(n) : n \in Range(nuclides)} |->
                          LastHaving(nuclides, Label, k)],
         by_signature |-> [k \in {Signature(n) : n \in Range(nuclides)} |->
                              LastHaving(nuclides, Signature, k)],
         by_atomic_number |-> [k \in {AtomicNumber(n) : n \in Range(nuclides)} |->
                                  Having(nuclides, AtomicNumber, k)],
         isomers |-> [k \in {Numbers(n) : n \in Range(nuclides)} |->
                         Having(nuclides, Numbers, k)]]

\* variant: the loop stops at the first row that raises BadNubaseRow
Nuclides_load_stop(file) ==
    LET loaded == [i \in 1..Len(file) |-> Nuclide_load(file[i])]
        good == SelectSeq(Indices(Len(file)),
                    LAMBDA i : \A j \in 1..i : "kind" \notin DOMAIN loaded[j])
    IN  Nuclides([k \in 1..Len(good) |-> loaded[good[k]]]
                     \o <<Electron, ElectronNeutrino>>)

\* load: the rows that do not raise BadNubaseRow, in file order, then the
\* electron and the electron neutrino
Nuclides_load(file) ==
    LET loaded == [i \in 1..Len(file) |-> Nuclide_load(file[i])]
        good == SelectSeq(Indices(Len(file)),
                    LAMBDA i : "kind" \notin DOMAIN loaded[i])
    IN  Nuclides([k \in 1..Len(good) |-> loaded[good[k]]]
                     \o <<Electron, ElectronNeutrino>>)

\* atomic_number: self._by_atomic_number[number], which inserts an empty
\* list under a missing key; the instance after the call and the list
Nuclides_atomic_number(self, number) ==
    IF number \in DOMAIN self.by_atomic_number
    THEN [self |-> self, value |-> self.by_atomic_number[number]]
    ELSE [self |-> [self EXCEPT !.by_atomic_number =
                       [k \in DOMAIN self.by_atomic_number \cup {number} |->
                           IF k = number THEN <<>> ELSE self.by_atomic_number[k]]],
          value |-> <<>>]

\* get: self._by_signature.get(signature)
Nuclides_get(self, signature) ==
    IF signature \in DOMAIN self.by_signature
    THEN self.by_signature[signature] ELSE None

(***************************************************************************)
(* lenrmc.nubase.HalfLife and Nuclide.json                                 *)
(***************************************************************************)
HalfLife(value, unit) == [value |-> value, unit |-> unit]

\* float(value) for the half-life texts of the data file, in units of 0.01:
\* a text that is not a number ('stbl', or an estimate such as '1#') raises
float(value) ==
    CASE value = "613.9" -> Num(61390)
      [] value = "7.13" -> Num(713)
      [] value = "12.32" -> Num(1232)
      [] value = "5.25" -> Num(525)
      [] value = "4.2" -> Num(420)
      [] OTHER -> Raise("ValueError")

\* variant: the value is returned whatever the unit is
HalfLife_seconds_anyunit(h) == float(h.value)

\* property seconds
HalfLife_seconds(h) ==
    IF h.unit = "s" THEN float(h.value)
    ELSE Raise("ValueError")

\* Nuclide.json: half_life reads both columns of the row (KeyError when the
\* unit columns are blank), then seconds; an exception leaves json as it is
Nuclide_json(n) ==
    IF "halfLife" \notin DOMAIN n.row \/ "halfLifeUnit" \notin DOMAIN n.row
    THEN Raise("KeyError")
    ELSE LET seconds == HalfLife_seconds(HalfLife(n.row.halfLife, n.row.halfLifeUnit))
         IN  IF seconds.kind = "raise" THEN seconds
             ELSE [kind |-> "dict", halfLife |-> seconds,
                   atomicNumber |-> n.atomic_number, massNumber |-> n.mass_number]

(***************************************************************************)
(* lenrmc.nubase.parse_spec                                                *)
(* A spec is carried as the labels spec.split('+') gives once stripped:    *)
(* always at least one, possibly one that names nothing.                   *)
(***************************************************************************)
\* most terms of a spec
MaxTerms == 2

\* ELEMENTS in the order of the dict: 'e-', 'n' and the elements NubaseFile
\* has rows of
ELEMENTS ==
    << <<"e-", -1>>, <<"n", 0>>, <<"H", 1>>, <<"He", 2>>, <<"Li", 3>>,
       <<"N", 7>>, <<"Tc", 43>> >>

\* the labels the model writes specs with: nuclide labels, element symbols,
\* 'all', and 'Xx', which names nothing
SampleLabels == {"p", "t", "n", "e-", "Li", "N", "all", "Xx"}

\* every spec of 1..n terms
Specs(n) == UNION {[1..k -> SampleLabels] : k \in 1..n}

\* kwargs.get('unstable'): None when the flag is omitted
UnstableFlags == {"None", "False", "True"}

\* variant: the flag is ignored and every nuclide is produced
stable_nuclides_all(nuclides, unstable) ==
    [i \in 1..Len(nuclides) |-> <<1, nuclides[i]>>]

\* stable_nuclides(nuclides, unstable)
stable_nuclides(nuclides, unstable) ==
    IF unstable = "True"
    THEN [i \in 1..Len(nuclides) |-> <<1, nuclides[i]>>]
    ELSE LET kept == SelectSeq(nuclides, LAMBDA n : n.is_stable /\ ~n.is_excited)
         IN  [i \in 1..Len(kept) |-> <<1, kept[i]>>]

\* itertools.product(*rows), the last row varying fastest
RECURSIVE Product(_)
Product(rows) ==
    IF rows = <<>> THEN << <<>> >>
    ELSE LET rest == Product(Tail(rows))
         IN  Flatten([i \in 1..Len(Head(rows)) |->
                 [j \in 1..Len(rest) |-> <<Head(rows)[i]>> \o rest[j]]])

\* the branch for 'all': for number in ELEMENTS.values(), the lookup and
\* row.extend(...); the instance after the loop and the row
RECURSIVE ExpandAll(_, _, _)
ExpandAll(self, elements, unstable) ==
    IF elements = <<>> THEN [self |-> self, row |-> <<>>]
    ELSE LET ns == Nuclides_atomic_number(self, Head(elements)[2])
             rest == ExpandAll(ns.self, Tail(elements), unstable)
         IN  [self |-> rest.self,
              row |-> stable_nuclides(ns.value, unstable) \o rest.row]

\* the loop over the labels: the instance after it, and the rows, or the
\* KeyError of ELEMENTS[label]
RECURSIVE Reactants(_, _, _)
Reactants(self, labels, unstable) ==
    IF labels = <<>> THEN [self |-> self, raised |-> FALSE, rows |-> <<>>]
    ELSE LET label == Head(labels)
             n == Nuclides_get(self, <<label, "0">>)
             known == \E i \in 1..Len(ELEMENTS) : ELEMENTS[i][1] = label
             number == LET i == CHOOSE i \in 1..Len(ELEMENTS) : ELEMENTS[i][1] = label
                       IN  ELEMENTS[i][2]
             expanded == IF label = "all" THEN ExpandAll(self, ELEMENTS, unstable)
                         ELSE LET ns == Nuclides_atomic_number(self, number)
                              IN  [self |-> ns.self,
                                   row |-> stable_nuclides(ns.value, unstable)]
         IN  IF n # None
             THEN LET rest == Reactants(self, Tail(labels), unstable)
                  IN  [rest EXCEPT !.rows = << << <<1, n>> >> >> \o @]
             ELSE IF label # "all" /\ ~known
             THEN [self |-> self, raised |-> TRUE, rows |-> <<>>]
             ELSE LET rest == Reactants(expanded.self, Tail(labels), unstable)
                  IN  [rest EXCEPT !.rows = <<expanded.row>> \o @]

\* parse_spec(spec, unstable=...): the provider after the call, and the list
\* of the tuples of the product it returns, or the exception
parse_spec(self, labels, unstable) ==
    LET r == Reactants(self, labels, unstable)
    IN  [self |-> r.self,
         value |-> IF r.raised THEN Raise("KeyError")
                   ELSE [kind |-> "tuples", tuples |-> Product(r.rows)]]

\* Nuclides.db() run by one thread from its first line to its return: the
\* instances and the class attribute after it
Nuclides_db(instances, nuclides) ==
    IF nuclides = 0
    THEN [heap |-> Append(instances, Nuclides_load(NubaseFile)),
          nuclides |-> Len(instances) + 1]
    ELSE [heap |-> instances, nuclides |-> nuclides]

(***************************************************************************)
(* Operations                                                              *)
(***************************************************************************)
\* most threads calling Nuclides.db()
MaxThreads == 3

Threads == 1..MaxThreads

\* most rows of a file handed to Nuclides.load
MaxRows == 3

\* the rows such files are written with
SampleRows ==
    {NubaseFile[i] : i \in {1, 2, 6, 7, 10}} \cup {BlankRow}

\* every file of at most n rows
Files(n) == UNION {[1..k -> SampleRows] : k \in 0..n}

\* the half-life values and units HalfLife is built with
SampleHalfLifeValues == {"613.9", "7.13", "12.32", "stbl", "1#"}
SampleUnits == {"s", "ms", "us", "y", "My"}

\* the signatures handed to Nuclides.get
SampleSignatures ==
    {<<"p", "0">>, <<"16N", "m">>, <<"e-", "0">>, <<"16N", "x">>, <<"Xx", "0">>}

\* nothing has been called and nothing is loaded
Init ==
    /\ call = [op |-> "none"]
    /\ ret = <<>>
    /\ heap = <<>>
    /\ Nuclides_nuclides = 0
    /\ pc = [t \in Threads |-> "idle"]
    /\ local = [t \in Threads |-> 0]
    /\ returned = {}

\* no call is in progress
Idle == call.op = "none"

\* list(vectors3(n))
CallVectors3 ==
    /\ Idle
    /\ UNCHANGED tableVars
    /\ \E n \in 0..MaxN :
        /\ call' = [op |-> "vectors3", n |-> n]
        /\ ret' = vectors3(n)

\* list(regular_combinations((A, Z)))
CallRegularCombinations ==
    /\ Idle
    /\ UNCHANGED tableVars
    /\ \E A \in 0..MaxA, Z \in 0..MaxZ :
        /\ call' = [op |-> "regular_combinations", totals |-> <<A, Z>>]
        /\ ret' = regular_combinations(<<A, Z>>)

\* ReactionEnergy(reaction).value
CallReactionEnergy ==
    /\ Idle
    /\ UNCHANGED tableVars
    /\ \E l \in Sides, r \in Sides :
        /\ call' = [op |-> "ReactionEnergy", reaction |-> [lvalues |-> l, rvalues |-> r]]
        /\ ret' = ReactionEnergy([lvalues |-> l, rvalues |-> r])

\* GamowSuppressionFactor(parent, (smaller, larger), q_value).value()
CallGamowSuppressionFactor ==
    /\ Idle
    /\ UNCHANGED tableVars
    /\ \E smaller \in SampleNuclides, larger \in SampleNuclides, q \in (-MaxQ)..MaxQ :
        /\ call' = [op |-> "GamowSuppressionFactor",
                    smaller |-> smaller, larger |-> larger, q |-> q]
        /\ ret' = GamowSuppressionFactor(smaller, larger, q)

\* Gamow2(parent, (smaller, larger), q_value).value()
CallGamow2 ==
    /\ Idle
    /\ UNCHANGED tableVars
    /\ \E smaller \in SampleNuclides, larger \in SampleNuclides, q \in (-MaxQ)..MaxQ :
        /\ call' = [op |-> "Gamow2", smaller |-> smaller, larger |-> larger, q |-> q]
        /\ ret' = Gamow2(smaller, larger, q)

\* c = IsotopicAlphaDecayCalculation(parent, (smaller, larger), q_value,
\* screening=...), then the four properties are read, each on its own
CallIsotopicAlphaDecay ==
    /\ Idle
    /\ UNCHANGED tableVars
    /\ \E smaller \in SampleNuclides, larger \in SampleNuclides,
          q \in (-MaxQ)..MaxQ, screening \in 0..MaxScreening :
        LET c == IsotopicAlphaDecayCalculation(smaller, larger, q, screening)
        IN  /\ call' = [op |-> "IsotopicAlphaDecayCalculation", self |-> c,
                        screening |-> screening]
            /\ ret' = [gamow_factor |-> gamow_factor(c),
                       tunneling_probability |-> tunneling_probability(c),
                       decay_constant |-> decay_constant(c),
                       half_life |-> half_life(c)]

\* IsotopicDecay(decay_constant=..., moles=..., ...).remaining(seconds=t)
CallRemaining ==
    /\ Idle
    /\ UNCHANGED tableVars
    /\ \E parent \in SampleParents, lambda \in 0..MaxLambda,
          moles \in 0..MaxMoles, t \in 0..MaxSeconds :
        LET decay == IsotopicDecay(lambda, parent.q_kev, parent.atomic_number,
                                   parent.isotopic_abundance, moles)
        IN  /\ call' = [op |-> "remaining", decay |-> decay, seconds |-> t]
            /\ ret' = Num(remaining(decay, t))

\* decay.activity(seconds=t): the value, and the record as the call leaves it
\* (no attribute is assigned outside __init__)
CallActivity ==
    /\ Idle
    /\ UNCHANGED tableVars
    /\ \E parent \in SampleParents, lambda \in 0..MaxLambda,
          moles \in 0..MaxMoles, t \in 0..MaxSeconds :
        LET decay == IsotopicDecay(lambda, parent.q_kev, parent.atomic_number,
                                   parent.isotopic_abundance, moles)
        IN  /\ call' = [op |-> "activity", decay |-> decay, seconds |-> t]
            /\ ret' = [value |-> Num(activity(decay, t)), self |-> decay]

\* decay.power(seconds=t): the Power, and the record as the call leaves it
CallPower ==
    /\ Idle
    /\ UNCHANGED tableVars
    /\ \E parent \in SampleParents, lambda \in 0..MaxLambda,
          moles \in 0..MaxMoles, t \in 0..MaxSeconds :
        LET decay == IsotopicDecay(lambda, parent.q_kev, parent.atomic_number,
                                   parent.isotopic_abundance, moles)
        IN  /\ call' = [op |-> "power", decay |-> decay, seconds |-> t]
            /\ ret' = [value |-> power(decay, t), self |-> decay]

\* AlphaDecay.load(reactions=..., moles=...).activity(seconds=t)
CallAlphaDecayActivity ==
    /\ Idle
    /\ UNCHANGED tableVars
    /\ \E reactions \in ReactionLists(MaxReactions),
          moles \in 0..MaxMoles, t \in 0..MaxSeconds :
        /\ call' = [op |-> "AlphaDecay.activity", reactions |-> reactions,
                    moles |-> moles, seconds |-> t]
        /\ ret' = Num(AlphaDecay_activity(AlphaDecay(reactions, moles), t))

\* AlphaDecay.load(reactions=..., moles=...).power(seconds=t)
CallAlphaDecayPower ==
    /\ Idle
    /\ UNCHANGED tableVars
    /\ \E reactions \in ReactionLists(MaxReactions),
          moles \in 0..MaxMoles, t \in 0..MaxSeconds :
        /\ call' = [op |-> "AlphaDecay.power", reactions |-> reactions,
                    moles |-> moles, seconds |-> t]
        /\ ret' = AlphaDecay_power(AlphaDecay(reactions, moles), t)

\* GeigerNuttal.load(components, q_value): the candidate built by the
\* constructor the decay models share
CallCandidateLoad ==
    /\ Idle
    /\ UNCHANGED tableVars
    /\ \E components \in {<<>>} \cup
              {<<parent, <<d1, d2>>>> : parent \in SampleNuclides,
                                        d1 \in SampleNuclides, d2 \in SampleNuclides},
          q \in {-MaxQ, 0, MaxQ} :
        /\ call' = [op |-> "GeigerNuttal.load", components |-> components, q |-> q]
        /\ ret' = AlphaCalculationMixin_load(components, q)

\* Nuclides.load(path=...) on a file of the caller
CallNuclidesLoad ==
    /\ Idle
    /\ UNCHANGED tableVars
    /\ \E file \in Files(MaxRows) :
        /\ call' = [op |-> "Nuclides.load", file |-> file]
        /\ ret' = Nuclides_load(file)

\* HalfLife(value, unit).seconds
CallSeconds ==
    /\ Idle
    /\ UNCHANGED tableVars
    /\ \E value \in SampleHalfLifeValues, unit \in SampleUnits :
        /\ call' = [op |-> "HalfLife.seconds", self |-> HalfLife(value, unit)]
        /\ ret' = HalfLife_seconds(HalfLife(value, unit))

\* n.json() for a nuclide of the data file
CallJson ==
    /\ Idle
    /\ UNCHANGED tableVars
    /\ \E i \in 1..Len(NubaseFile) :
        /\ "massExcess" \in DOMAIN NubaseFile[i]
        /\ call' = [op |-> "Nuclide.json", self |-> Nuclide_load(NubaseFile[i])]
        /\ ret' = Nuclide_json(Nuclide_load(NubaseFile[i]))

\* the caller has read the result; results are not kept between calls
Return ==
    /\ ~Idle
    /\ call' = [op |-> "none"]
    /\ ret' = <<>>
    /\ UNCHANGED tableVars

Next ==
    \/ CallVectors3
    \/ CallRegularCombinations
    \/ CallReactionEnergy
    \/ CallGamowSuppressionFactor
    \/ CallGamow2
    \/ CallIsotopicAlphaDecay
    \/ CallRemaining
    \/ CallActivity
    \/ CallPower
    \/ CallAlphaDecayActivity
    \/ CallAlphaDecayPower
    \/ CallCandidateLoad
    \/ CallNuclidesLoad
    \/ CallSeconds
    \/ CallJson
    \/ Return

Spec == Init /\ [][Next]_vars

(***************************************************************************)
(* Lookups in the nuclide table, by one thread.  Every lookup goes through *)
(* Nuclides.db(), run to its return, and acts on the instance it gives.    *)
(***************************************************************************)
\* the class attribute, the instances and what db() returned, after db()
DbReturned(db) ==
    /\ Nuclides_nuclides' = db.nuclides
    /\ returned' = returned \cup {db.nuclides}
    /\ UNCHANGED <<pc, local>>

\* Nuclides.db()
CallDb ==
    /\ Idle
    /\ LET db == Nuclides_db(heap, Nuclides_nuclides)
       IN  /\ call' = [op |-> "Nuclides.db"]
           /\ ret' = db.nuclides
           /\ heap' = db.heap
           /\ DbReturned(db)

\* Nuclides.db().get(signature)
CallGet ==
    /\ Idle
    /\ \E signature \in SampleSignatures :
        LET db == Nuclides_db(heap, Nuclides_nuclides)
        IN  /\ call' = [op |-> "get", signature |-> signature]
            /\ ret' = Nuclides_get(db.heap[db.nuclides], signature)
            /\ heap' = db.heap
            /\ DbReturned(db)

\* Nuclides.db().atomic_number(number)
CallAtomicNumber ==
    /\ Idle
    /\ \E number \in (-1)..MaxZ :
        LET db == Nuclides_db(heap, Nuclides_nuclides)
            ns == Nuclides_atomic_number(db.heap[db.nuclides], number)
        IN  /\ call' = [op |-> "atomic_number", number |-> number]
            /\ ret' = ns.value
            /\ heap' = [db.heap EXCEPT ![db.nuclides] = ns.self]
            /\ DbReturned(db)

\* list(parse_spec(spec, unstable=...)), or parse_spec(spec) without the flag
CallParseSpec ==
    /\ Idle
    /\ \E labels \in Specs(MaxTerms), unstable \in UnstableFlags :
        LET db == Nuclides_db(heap, Nuclides_nuclides)
            r == parse_spec(db.heap[db.nuclides], labels, unstable)
        IN  /\ call' = [op |-> "parse_spec", labels |-> labels, unstable |-> unstable]
            /\ ret' = r.value
            /\ heap' = [db.heap EXCEPT ![db.nuclides] = r.self]
            /\ DbReturned(db)

NextProvider ==
    \/ CallDb
    \/ CallGet
    \/ CallAtomicNumber
    \/ CallParseSpec
    \/ Return

SpecProvider == Init /\ [][NextProvider]_vars

(***************************************************************************)
(* Nuclides.db() called from several threads.  A thread may be preempted   *)
(* between any two of the steps of db(): the test of cls._nuclides, the    *)
(* call of cls.load (which reads the file), the assignment of the result   *)
(* to cls._nuclides, and the return of cls._nuclides.                      *)
(***************************************************************************)
\* if cls._nuclides is None
DbTest(t) ==
    /\ pc[t] = "idle"
    /\ pc' = [pc EXCEPT ![t] = IF Nuclides_nuclides = 0 THEN "load" ELSE "return"]
    /\ UNCHANGED <<call, ret, heap, Nuclides_nuclides, local, returned>>

\* cls.load(path=NUBASE_PATH)
DbLoad(t) ==
    /\ pc[t] = "load"
    /\ heap' = Append(heap, Nuclides_load(NubaseFile))
    /\ local' = [local EXCEPT ![t] = Len(heap) + 1]
    /\ pc' = [pc EXCEPT ![t] = "store"]
    /\ UNCHANGED <<call, ret, Nuclides_nuclides, returned>>

\* cls._nuclides = ...
DbStore(t) ==
    /\ pc[t] = "store"
    /\ Nuclides_nuclides' = local[t]
    /\ pc' = [pc EXCEPT ![t] = "return"]
    /\ UNCHANGED <<call, ret, heap, local, returned>>

\* return cls._nuclides
DbReturn(t) ==
    /\ pc[t] = "return"
    /\ returned' = returned \cup {Nuclides_nuclides}
    /\ local' = [local EXCEPT ![t] = 0]
    /\ pc' = [pc EXCEPT ![t] = "idle"]
    /\ UNCHANGED <<call, ret, heap, Nuclides_nuclides>>

NextDb ==
    \E t \in Threads :
        \/ DbTest(t)
        \/ DbLoad(t)
        \/ DbStore(t)
        \/ DbReturn(t)

SpecDb == Init /\ [][NextDb]_vars

(***************************************************************************)
(* Partition generator                                                     *)
(***************************************************************************)
\* all ordered triples of non-negative integers summing to n
Triples(n) == {t \in (0..n) \X (0..n) \X (0..n) : t[1] + t[2] + t[3] = n}

\* C1: every tuple yielded by vectors3(n) has exactly 3 components, each a
\* non-negative integer, and the components sum to exactly n.
C1_TuplesSumToN ==
    call.op = "vectors3" =>
        \A i \in 1..Len(ret) :
            /\ Len(ret[i]) = 3
            /\ \A c \in 1..3 : ret[i][c] \in Nat
            /\ ret[i][1] + ret[i][2] + ret[i][3] = call.n

C1_Witness ==
    /\ call.op = "vectors3"
    /\ call.n = 5
    /\ Len(ret) = 15

\* C2 as stated: the number of tuples yielded by vectors3(n) equals
\* C(n+2,2) = (n+2)(n+1)/2.
C2_CountBinomialN2 ==
    call.op = "vectors3" => Len(ret) = ((call.n + 2) * (call.n + 1)) \div 2

\* C2 amended: the number of tuples yielded by vectors3(n) equals
\* C(n+1,2) = n(n+1)/2 (6 for n = 3, 15 for n = 5).
C2_CountBinomialN1 ==
    call.op = "vectors3" => Len(ret) = (call.n * (call.n + 1)) \div 2

C2_Witness ==
    /\ call.op = "vectors3"
    /\ call.n = 3
    /\ Len(ret) = 6

\* C3 as stated: vectors3(n) yields every ordered triple of non-negative
\* integers summing to n, each exactly once; for n = 0 exactly (0,0,0).
C3_AllTriplesOnce ==
    call.op = "vectors3" =>
        /\ \A t \in Triples(call.n) : Count(ret, t) = 1
        /\ Range(ret) \subseteq Triples(call.n)
        /\ (call.n = 0 => ret = << <<0, 0, 0>> >>)

\* C3 amended: vectors3(n) yields every ordered triple of non-negative
\* integers summing to n whose first component is at least 1, each exactly
\* once, and nothing else; for n = 0 there is no such triple and nothing is
\* yielded.
C3_PositiveFirstTriplesOnce ==
    call.op = "vectors3" =>
        /\ \A t \in {u \in Triples(call.n) : u[1] >= 1} : Count(ret, t) = 1
        /\ Range(ret) \subseteq {u \in Triples(call.n) : u[1] >= 1}
        /\ (call.n = 0 => ret = <<>>)

C3_Witness ==
    /\ call.op = "vectors3"
    /\ call.n = 3
    /\ ret = << <<3, 0, 0>>, <<2, 1, 0>>, <<1, 2, 0>>,
                <<2, 0, 1>>, <<1, 1, 1>>, <<1, 0, 2>> >>

(***************************************************************************)
(* Outcome enumerator                                                      *)
(***************************************************************************)
\* s and t hold the same fragments with the same multiplicities
IsPermutation(s, t) ==
    /\ Len(s) = Len(t)
    /\ \A x \in Range(s) \cup Range(t) : Count(s, x) = Count(t, x)

\* C4: every combination yielded by regular_combinations((A, Z)) conserves
\* both quantities (masses sum to A, charges sum to Z) and every fragment
\* (m, z) in it satisfies 0 <= z <= m.
C4_Conservation ==
    call.op = "regular_combinations" =>
        \A i \in 1..Len(ret) :
            /\ SumSeq([k \in 1..Len(ret[i]) |-> ret[i][k][1]]) = call.totals[1]
            /\ SumSeq([k \in 1..Len(ret[i]) |-> ret[i][k][2]]) = call.totals[2]
            /\ \A k \in 1..Len(ret[i]) : 0 <= ret[i][k][2] /\ ret[i][k][2] <= ret[i][k][1]

C4_Witness ==
    /\ call.op = "regular_combinations"
    /\ call.totals = <<6, 3>>
    /\ \E i \in 1..Len(ret) : ret[i] = << <<1, 0>>, <<2, 1>>, <<3, 2>> >>

\* C5: regular_combinations((A, Z)) never yields two combinations that are
\* permutations of the same multiset of fragments; the multiset of every
\* admissible candidate appears exactly once in the output; (2, 1) gives
\* exactly ((2,1),) and ((1,0),(1,1)); (6, 3) gives 19 combinations.
C5_NoPermutedDuplicates ==
    call.op = "regular_combinations" =>
        /\ \A i, j \in 1..Len(ret) : IsPermutation(ret[i], ret[j]) => i = j
        /\ \A c \in Range(Candidates(call.totals)) :
               Admissible(c) =>
                   Cardinality({i \in 1..Len(ret) :
                                   IsPermutation(ret[i], NonEmptyPairs(c))}) = 1
        /\ (call.totals = <<2, 1>> =>
               ret = << << <<2, 1>> >>, << <<1, 0>>, <<1, 1>> >> >>)
        /\ (call.totals = <<6, 3>> => Len(ret) = 19)

C5_Witness ==
    /\ call.op = "regular_combinations"
    /\ call.totals = <<6, 3>>
    /\ Len(ret) = 19
    /\ Len(SelectSeq(Candidates(call.totals), Admissible)) > 19

(***************************************************************************)
(* Q-value                                                                 *)
(***************************************************************************)
\* C6: the Q-value in keV equals the sum over reactants of multiplicity x
\* mass excess minus the sum over daughters of multiplicity x mass excess;
\* the reaction with reactants and daughters swapped has exactly the negated
\* Q-value; a negative result is returned as a value, not an error.
C6_QValueAntisymmetric ==
    call.op = "ReactionEnergy" =>
        /\ ret.kind = "num"
        /\ ret.v = SideKev(call.reaction.lvalues) - SideKev(call.reaction.rvalues)
        /\ ReactionEnergy(Swapped(call.reaction)) = Num(0 - ret.v)

C6_Witness ==
    /\ call.op = "ReactionEnergy"
    /\ ret.kind = "num"
    /\ ret.v < 0

(***************************************************************************)
(* Gamow suppression factor                                                *)
(***************************************************************************)
\* the barrier ratio of the call's arguments is computed and is >= 1
RatioAtLeastOne(c) ==
    LET r == BarrierRatio(c.larger.mass_number, c.larger.atomic_number,
                          c.smaller.mass_number, c.smaller.atomic_number, c.q)
    IN  r.den > 0 /\ r.num >= r.den

\* C7: GamowSuppressionFactor.value returns not-a-number whenever Q < 0, and
\* for Q > 0 returns exactly 0 whenever the computed barrier ratio r = rs/rc
\* is >= 1; it returns a non-zero value only when Q > 0 and r < 1.
C7_GamowSuppressionSentinels ==
    call.op = "GamowSuppressionFactor" =>
        /\ (call.q < 0 => ret = NaN)
        /\ (call.q > 0 /\ RatioAtLeastOne(call) => ret = Num(0))
        /\ ((ret.kind = "num" /\ ret.v # 0) => (call.q > 0 /\ ~RatioAtLeastOne(call)))

C7_Witness ==
    /\ call.op = "GamowSuppressionFactor"
    /\ call.q > 0
    /\ RatioAtLeastOne(call)
    /\ ret = Num(0)

(***************************************************************************)
(* Gamow factor, full tunneling model                                      *)
(***************************************************************************)
\* the ratio x of the call's arguments lies outside [0, 1]
RatioOutOfRange(c) ==
    LET x == TunnelingRatio(c.smaller, c.larger, c.q)
    IN  x.den > 0 /\ x.num > x.den

\* C8: Gamow2.value never raises: whenever the ratio x = Q / barrier-width
\* distance lies outside [0, 1], or Q is negative, the call returns
\* not-a-number instead of raising an exception.
C8_Gamow2NeverRaises ==
    call.op = "Gamow2" =>
        /\ ret.kind # "raise"
        /\ ((call.q < 0 \/ RatioOutOfRange(call)) => ret = NaN)

(***************************************************************************)
(* Isotopic alpha-decay calculation                                        *)
(***************************************************************************)
\* C9: on IsotopicAlphaDecayCalculation physical edge cases never raise: for
\* every Q-value (negative, zero or positive), every screening value and
\* every alpha-energy / barrier-height ratio outside [0, 1], reading
\* gamow_factor, tunneling_probability, decay_constant and half_life yields a
\* number or not-a-number, never an exception.
C9_AlphaDecayNeverRaises ==
    call.op = "IsotopicAlphaDecayCalculation" =>
        /\ ret.gamow_factor.kind # "raise"
        /\ ret.tunneling_probability.kind # "raise"
        /\ ret.decay_constant.kind # "raise"
        /\ ret.half_life.kind # "raise"

(***************************************************************************)
(* Decay kinetics                                                          *)
(***************************************************************************)
\* C10: for an IsotopicDecay record built with any decay constant
\* lambda >= 0 and any (non-negative) mole count, remaining(seconds=0) equals
\* the initial atom count, moles x Avogadro's number, exactly, and
\* remaining(t) is non-increasing in t: t1 <= t2 implies
\* remaining(t1) >= remaining(t2).
C10_RemainingMonotone ==
    call.op = "remaining" =>
        /\ (call.seconds = 0 => ret = Num(call.decay.initial))
        /\ \A t2 \in call.seconds..MaxSeconds : ret.v >= remaining(call.decay, t2)
        /\ \A t1 \in 0..call.seconds : remaining(call.decay, t1) >= ret.v

C10_Witness ==
    /\ call.op = "remaining"
    /\ call.decay.decay_constant > 0
    /\ call.decay.initial > 0
    /\ call.seconds > 0
    /\ ret.v < call.decay.initial
    /\ ret.v > remaining(call.decay, MaxSeconds)

\* C11: for every IsotopicDecay record and every t, activity(t) is the decay
\* constant times remaining(t) exactly, and power(t) is activity(t) times the
\* deposited energy in joules; the queries leave the record as it was, so a
\* repeated query with the same t returns the same result.
C11_ActivityAndPower ==
    /\ call.op = "activity" =>
           /\ ret.value = Num(call.decay.decay_constant
                                  * remaining(call.decay, call.seconds))
           /\ ret.self = call.decay
           /\ Num(activity(ret.self, call.seconds)) = ret.value
    /\ call.op = "power" =>
           /\ ret.value.megawatts = call.decay.decay_constant
                                       * remaining(call.decay, call.seconds)
                                       * Energy_joules(call.decay.deposited_energy)
           /\ ret.value.watts = 0
           /\ ret.self = call.decay
           /\ power(ret.self, call.seconds) = ret.value

C11_Witness ==
    /\ call.op = "power"
    /\ call.decay.decay_constant > 0
    /\ call.seconds > 0
    /\ ret.value.megawatts > 0
    /\ ret.value.megawatts < call.decay.decay_constant * call.decay.initial
                                * Energy_joules(call.decay.deposited_energy)

(***************************************************************************)
(* Aggregation over an isotopic mixture                                    *)
(***************************************************************************)
\* the decays of the call's reactions that are not None, in list order
DecaysOf(c) ==
    SelectSeq([i \in 1..Len(c.reactions) |-> alpha_decay(c.reactions[i], c.moles)],
              LAMBDA d : d # None)

\* C12: AlphaDecay.power(seconds=t) is the sum over the decay records of each
\* record's abundance-weighted power at t, and so varies with the reactions,
\* the mole count and t.
C12_TotalPowerIsSum ==
    call.op = "AlphaDecay.power" =>
        LET ds == DecaysOf(call)
        IN  /\ ret.megawatts =
                   SumSeq([i \in 1..Len(ds) |->
                       ds[i].isotopic_abundance * power(ds[i], call.seconds).megawatts])
            /\ ret.watts = 0

\* C19: AlphaDecay.activity(seconds=t) is the sum, over every reaction whose
\* alpha_decay(...) is not None, of isotopic_abundance x activity(t), each
\* counted exactly once whatever the grouping by atomic number; a None
\* result contributes nothing and does not abort the construction.
C19_TotalActivityIsSum ==
    call.op = "AlphaDecay.activity" =>
        LET ds == DecaysOf(call)
        IN  ret = Num(SumSeq([i \in 1..Len(ds) |->
                      ds[i].isotopic_abundance * ds[i].decay_constant
                          * remaining(ds[i], call.seconds)]))

C19_Witness ==
    /\ call.op = "AlphaDecay.activity"
    /\ Len(call.reactions) = 3
    /\ call.reactions[1] = None
    /\ call.reactions[2] # None
    /\ call.reactions[3] # None
    /\ call.reactions[2] # call.reactions[3]
    /\ call.reactions[2].parent = call.reactions[3].parent
    /\ call.reactions[2].parent.isotopic_abundance > 0
    /\ ret.v > call.reactions[2].parent.isotopic_abundance
                  * activity(alpha_decay(call.reactions[2], call.moles), call.seconds)
    /\ ret.v > call.reactions[3].parent.isotopic_abundance
                  * activity(alpha_decay(call.reactions[3], call.moles), call.seconds)

(***************************************************************************)
(* Nuclide table                                                           *)
(***************************************************************************)
\* C13: the nuclide table is initialized at most once per process: over any
\* interleaving of Nuclides.db() calls, concurrent first accesses from
\* several threads included, the data file is loaded once, every call
\* returns the same instance, and the stored instance is never replaced.
C13_InitializedOnce ==
    /\ Len(heap) <= 1
    /\ Cardinality(returned) <= 1
    /\ Nuclides_nuclides \in {0, 1}

\* the indexes of the table are those its construction from the file gave
IndexesAsConstructed(self) ==
    LET fresh == Nuclides_load(NubaseFile)
    IN  /\ self.by_signature = fresh.by_signature
        /\ self.by_atomic_number = fresh.by_atomic_number
        /\ self.isomers = fresh.isomers

\* C14: lookups are pure: for every argument, an atomic number or signature
\* matching no nuclide included, atomic_number(Z) and get(signature) leave
\* the indexes by signature, by atomic number and of isomers unchanged, so
\* the table after any sequence of lookups, those of parse_spec for 'all'
\* included, is the table as constructed.
C14_LookupsArePure ==
    Nuclides_nuclides # 0 => IndexesAsConstructed(heap[Nuclides_nuclides])

\* the rows of a file that have a mass excess, in file order
RowsWithMassExcess(file) ==
    SelectSeq(file, LAMBDA row : "massExcess" \in DOMAIN row)

\* C15: Nuclides.load skips every row lacking a mass excess without error
\* and keeps every other row: the loaded table holds, in file order, one
\* record per row with a mass excess, then the electron and the electron
\* neutrino; a row without mass excess never aborts the load.
C15_LoadKeepsRowsWithMassExcess ==
    call.op = "Nuclides.load" =>
        LET kept == RowsWithMassExcess(call.file)
        IN  /\ DOMAIN ret = {"nuclides", "by_label", "by_signature",
                             "by_atomic_number", "isomers"}
            /\ Len(ret.nuclides) = Len(kept) + 2
            /\ \A i \in 1..Len(kept) : ret.nuclides[i].row = kept[i]
            /\ ret.nuclides[Len(kept) + 1] = Electron
            /\ ret.nuclides[Len(kept) + 2] = ElectronNeutrino

C15_Witness ==
    /\ call.op = "Nuclides.load"
    /\ Len(call.file) = 3
    /\ "massExcess" \in DOMAIN call.file[1]
    /\ "massExcess" \notin DOMAIN call.file[2]
    /\ "massExcess" \in DOMAIN call.file[3]
    /\ call.file[1] # call.file[3]
    /\ Len(ret.nuclides) = 4
    /\ ret.nuclides[2].row = call.file[3]

\* C16 as stated: HalfLife.seconds returns the value as a float exactly when
\* the unit is 's' and raises ValueError for every other unit; callers such
\* as Nuclide.json do not catch the error.
C16_SecondsExactlyForUnitS ==
    /\ call.op = "HalfLife.seconds" =>
           /\ (call.self.unit = "s" <=> ret.kind = "num")
           /\ (call.self.unit # "s" => ret = Raise("ValueError"))
    /\ (call.op = "Nuclide.json" /\ "halfLifeUnit" \in DOMAIN call.self.row) =>
           /\ (call.self.row.halfLifeUnit = "s" <=> ret.kind = "dict")
           /\ (call.self.row.halfLifeUnit # "s" => ret = Raise("ValueError"))

\* C16 amended: HalfLife.seconds returns a float only when the unit is 's',
\* and then float(value), which raises ValueError for a value that is not a
\* number; for every other unit it raises ValueError; callers such as
\* Nuclide.json do not catch the error.
C16_SecondsOnlyForUnitS ==
    /\ call.op = "HalfLife.seconds" =>
           /\ (ret.kind = "num" => call.self.unit = "s")
           /\ (call.self.unit = "s" => ret = float(call.self.value))
           /\ (call.self.unit # "s" => ret = Raise("ValueError"))
           /\ ret.kind \in {"num", "raise"}
    /\ (call.op = "Nuclide.json" /\ "halfLifeUnit" \in DOMAIN call.self.row) =>
           /\ (ret.kind = "dict" => call.self.row.halfLifeUnit = "s")
           /\ (call.self.row.halfLifeUnit # "s" => ret = Raise("ValueError"))

C16_Witness ==
    /\ call.op = "Nuclide.json"
    /\ "halfLifeUnit" \in DOMAIN call.self.row
    /\ call.self.row.halfLifeUnit # "s"
    /\ ret = Raise("ValueError")

\* the label is neither a ground-state label of the table, 'all', nor an
\* element symbol
Unresolvable(label) ==
    /\ <<label, "0">> \notin DOMAIN Nuclides_load(NubaseFile).by_signature
    /\ label # "all"
    /\ \A i \in 1..Len(ELEMENTS) : ELEMENTS[i][1] # label

\* C17: an unresolvable lookup gives an absent or empty result and never
\* fails: Nuclides.get on an unknown signature returns absent, and parse_spec
\* on a spec with a term that is neither a known ground-state label, 'all',
\* nor a known element symbol yields an empty sequence of reactant tuples
\* rather than raising.
C17_UnresolvableIsEmpty ==
    /\ call.op = "get" =>
           (call.signature \notin DOMAIN Nuclides_load(NubaseFile).by_signature
                => ret = None)
    /\ call.op = "parse_spec" =>
           /\ ret.kind = "tuples"
           /\ (\E i \in 1..Len(call.labels) : Unresolvable(call.labels[i]))
                  => ret.tuples = <<>>

\* what one term of a spec stands for, from the list of the table's
\* nuclides: the nuclide of a ground-state label, else the nuclides of the
\* element (of every element of ELEMENTS for 'all'), all of them with the
\* flag and the stable, not excited ones without
Alternatives(label, unstable) ==
    LET table == Nuclides_load(NubaseFile)
        numbers == IF label = "all" THEN [i \in 1..Len(ELEMENTS) |-> ELEMENTS[i][2]]
                   ELSE LET i == CHOOSE i \in 1..Len(ELEMENTS) : ELEMENTS[i][1] = label
                        IN  <<ELEMENTS[i][2]>>
        ofElement == Flatten([i \in 1..Len(numbers) |->
                         SelectSeq(table.nuclides,
                                   LAMBDA n : n.atomic_number = numbers[i])])
        kept == IF unstable = "True" THEN ofElement
                ELSE SelectSeq(ofElement, LAMBDA n : n.is_stable /\ ~n.is_excited)
    IN  IF <<label, "0">> \in DOMAIN table.by_signature
        THEN << <<1, table.by_signature[<<label, "0">>]>> >>
        ELSE [i \in 1..Len(kept) |-> <<1, kept[i]>>]

\* C18: in parse_spec the unstable flag controls element expansion only:
\* false or omitted, every nuclide produced by expanding an element symbol
\* or 'all' is stable and not excited; true, every nuclide with that atomic
\* number is produced; a term naming a ground-state label resolves to that
\* one nuclide with multiplicity 1 whatever the flag; the result is the
\* Cartesian product of the per-term alternatives in term order.
C18_UnstableControlsExpansion ==
    (call.op = "parse_spec" /\ ret.kind = "tuples") =>
        LET alts == [i \in 1..Len(call.labels) |->
                        Alternatives(call.labels[i], call.unstable)]
        IN  /\ ret.tuples = Product(alts)
            /\ \A k \in 1..Len(ret.tuples) :
                   /\ Len(ret.tuples[k]) = Len(call.labels)
                   /\ \A i \in 1..Len(call.labels) :
                          /\ ret.tuples[k][i] \in Range(alts[i])
                          /\ ret.tuples[k][i][1] = 1
                          /\ (<<call.labels[i], "0">> \in
                                  DOMAIN Nuclides_load(NubaseFile).by_signature
                              => ret.tuples[k][i][2].signature = <<call.labels[i], "0">>)
                          /\ (/\ <<call.labels[i], "0">> \notin
                                     DOMAIN Nuclides_load(NubaseFile).by_signature
                              /\ call.unstable # "True"
                              => /\ ret.tuples[k][i][2].is_stable
                                 /\ ~ret.tuples[k][i][2].is_excited)

C18_Witness ==
    /\ call.op = "parse_spec"
    /\ call.labels = <<"t", "N">>
    /\ call.unstable = "True"
    /\ ret.kind = "tuples"
    /\ Len(ret.tuples) = 2
    /\ ret.tuples[1][1][2].signature = <<"t", "0">>
    /\ ~ret.tuples[1][1][2].is_stable
    /\ ret.tuples[1][2][2].signature = <<"16N", "0">>
    /\ ret.tuples[2][2][2].signature = <<"16N", "m">>

(***************************************************************************)
(* Decay candidates                                                        *)
(***************************************************************************)
\* C20: every constructed decay candidate (GeigerNuttal, Gamow2,
\* GamowSuppressionFactor, IsotopicAlphaDecayCalculation) has
\* smaller.mass_number <= larger.mass_number, for any pair of daughters
\* passed in, in either order.
C20_SmallerIsLighter ==
    /\ call.op = "GeigerNuttal.load" /\ ret # None =>
           ret.smaller.mass_number <= ret.larger.mass_number
    /\ call.op \in {"Gamow2", "GamowSuppressionFactor"} =>
           call.smaller.mass_number <= call.larger.mass_number
    /\ call.op = "IsotopicAlphaDecayCalculation" =>
           call.self.smaller.mass_number <= call.self.larger.mass_number

====
